---- MODULE Spec2Model ----
(***************************************************************************)
(* The ownership-scoped persistence layer of dreamcog (server/db.ts), the  *)
(* tables it works on (drizzle/schema.ts) and the remote procedures that   *)
(* call it (server/routers.ts).                                            *)
(*                                                                         *)
(* The MySQL store is a record of tables, each a set of rows; a row is a   *)
(* record of its columns.  Every repository function of db.ts is an        *)
(* operator from the handle getDb() returned and the store to the store    *)
(* afterwards and the value returned (or the error raised); so is every    *)
(* procedure of the router, from the caller and the input as well, and a   *)
(* step of the model is one call of one procedure.                         *)
(*                                                                         *)
(* Abstractions: the createdAt / updatedAt columns are left out, so a      *)
(* query ordered by one of them returns its rows in any order; text values *)
(* come from a few sample strings.                                         *)
(***************************************************************************)
EXTENDS Integers, Sequences, FiniteSets, TLC

VARIABLES
    store,          \* the MySQL tables: table name -> set of rows
    autoInc,        \* table name -> the next AUTO_INCREMENT id
    _db,            \* db.ts: the memoized drizzle handle, or NoDb
    DATABASE_URL,   \* process.env.DATABASE_URL, or NoUrl
    family,         \* the entity family the modelled requests address
    now,            \* the clock new Date() reads
    connections,    \* the handles drizzle(url) has returned to this process
    pending         \* the statements the running call has still to issue

vars == <<store, autoInc, _db, DATABASE_URL, family, now, connections, pending>>

----------------------------------------------------------------------------
(* Bounds *)

\* the rows the create, add and save procedures insert in a run (over all
\* tables); a copy may start while no more have been inserted, and inserts
\* as many as its source has
MaxRows == 2

\* the calls of upsertUser in a run
MaxUpserts == 2

\* the rows the create and add procedures insert in a run that follows the
\* cascading deletes and the copy statement by statement; a delete or a copy
\* may start while no more have been inserted
MaxStepRows == 3

\* the authenticated users (ctx.user.id)
Users == {1, 2}

----------------------------------------------------------------------------
(* Values *)

NoDb == "null"
Handle == "drizzle"
NoUrl == "unset"
Url == "mysql://"

\* SQL NULL in a text column, in an int column
NullStr == "<null>"
NullInt == 0

\* a property of an input object: Some(v) when given, Undefined when it is
\* undefined; a property that is not there is not in the record's domain
Some(v) == <<v>>
Undefined == <<>>

\* the properties drizzle takes from an object passed to values() / set()
Supplied(data) == {f \in DOMAIN data : data[f] # Undefined}

\* { ...a, ...b }
Spread(a, b) ==
    [f \in DOMAIN a \cup DOMAIN b |-> IF f \in DOMAIN b THEN b[f] ELSE a[f]]

\* const { id, ...data } = input
Rest(input) == [f \in DOMAIN input \ {"id"} |-> input[f]]

----------------------------------------------------------------------------
(* drizzle/schema.ts: per table, the columns an insert must give and the   *)
(* default of every other column (id, createdAt, updatedAt apart)          *)

\* lastSignedIn has the default now(); upsertUser, the one insert into
\* users, always gives it
users ==
    [required |-> {"openId", "lastSignedIn"},
     defaults |-> [name |-> NullStr, email |-> NullStr, loginMethod |-> NullStr,
                   role |-> "user"]]

apiKeys ==
    [required |-> {"userId", "keyName", "encryptedKey"},
     defaults |-> [lastUsed |-> NullStr]]

characters ==
    [required |-> {"userId", "name", "label"},
     defaults |-> [promptDescription |-> NullStr, displayDescription |-> NullStr,
                   imageUrl |-> NullStr, isUserCharacter |-> FALSE]]

scenarios ==
    [required |-> {"userId", "title"},
     defaults |-> [promptDescription |-> NullStr, displayDescription |-> NullStr,
                   imageUrl |-> NullStr, isPublic |-> FALSE]]

scenarioCharacters ==
    [required |-> {"scenarioId", "name", "label"},
     defaults |-> [characterId |-> NullInt, promptDescription |-> NullStr,
                   isUserCharacter |-> FALSE, orderIndex |-> 0]]

scenarioInteractions ==
    [required |-> {"scenarioId", "interactionType", "content"},
     defaults |-> [characterLabel |-> NullStr, isSticky |-> FALSE, orderIndex |-> 0]]

chatSessions ==
    [required |-> {"userId", "title"},
     defaults |-> [scenarioId |-> NullInt, systemPrompt |-> NullStr,
                   modelId |-> "lucid-v1-medium", samplingParams |-> NullStr]]

chatMessages ==
    [required |-> {"sessionId", "messageType", "content"},
     defaults |-> [characterLabel |-> NullStr, characterName |-> NullStr,
                   isSticky |-> FALSE]]

stories ==
    [required |-> {"userId", "title"},
     defaults |-> [plotDescription |-> NullStr, styleDescription |-> NullStr,
                   content |-> NullStr, modelId |-> "lucid-v1-medium",
                   samplingParams |-> NullStr]]

storyCharacters ==
    [required |-> {"storyId", "name"},
     defaults |-> [description |-> NullStr, orderIndex |-> 0]]

generatedImages ==
    [required |-> {"userId", "includePrompt"},
     defaults |-> [excludePrompt |-> NullStr, cfgScale |-> 7, fidelity |-> 30,
                   aspectRatio |-> "square", style |-> NullStr, seed |-> NullInt,
                   imageUrl |-> NullStr]]

Tables ==
    {"users", "apiKeys", "characters", "scenarios", "scenarioCharacters",
     "scenarioInteractions", "chatSessions", "chatMessages", "stories",
     "storyCharacters", "generatedImages"}

----------------------------------------------------------------------------
(* The statements drizzle issues, on D = [rows |-> store, inc |-> autoInc] *)

D == [rows |-> store, inc |-> autoInc]

\* the row INSERT ... VALUES (data) makes: a column that is not supplied
\* takes its default
NewRow(table, data, id) ==
    [f \in {"id"} \cup table.required \cup DOMAIN table.defaults |->
        IF f = "id" THEN id
        ELSE IF f \in Supplied(data) THEN data[f][1]
        ELSE table.defaults[f]]

\* db.insert(table).values(data): the id is the table's AUTO_INCREMENT
Insert(d, name, table, data) ==
    [rows |-> [d.rows EXCEPT ![name] = @ \cup {NewRow(table, data, d.inc[name])}],
     inc |-> [d.inc EXCEPT ![name] = @ + 1]]

\* result[0].insertId of the insert that led from d
InsertId(d, name) == d.inc[name]

\* db.select().from(table) / db.update(table) / db.delete(table): the rows
\* a where clause chooses among
From(d, name) == d.rows[name]

\* an update that takes an empty title for a title that is not given
Update_TruthyTitle(d, name, matched, data) ==
    [d EXCEPT !.rows[name] =
        {IF r \in matched
            THEN [f \in DOMAIN r |->
                    IF f \in Supplied(data) /\ ~(f = "title" /\ data[f] = Some(""))
                    THEN data[f][1] ELSE r[f]]
            ELSE r : r \in @}]

\* db.update(table).set(data).where(...): the supplied columns of the rows
\* the where clause matched
Update(d, name, matched, data) ==
    [d EXCEPT !.rows[name] =
        {IF r \in matched
            THEN [f \in DOMAIN r |->
                    IF f \in Supplied(data) THEN data[f][1] ELSE r[f]]
            ELSE r : r \in @}]

\* db.delete(table).where(...)
Delete(d, name, matched) ==
    [d EXCEPT !.rows[name] = @ \ matched]

\* .orderBy(table.orderIndex): ascending; .orderBy(createdAt) and
\* .orderBy(desc(updatedAt)): the timestamps are not modelled
ByOrderIndex == "orderIndex"
ByTimestamp == "timestamp"

\* b may follow a in the rows of a query ordered that way; MySQL fixes no
\* order among equals
Ordered(a, b, by) == by = ByOrderIndex => a.orderIndex <= b.orderIndex

\* the orders in which a query may return the rows S: every enumeration of
\* S that Ordered accepts for each pair of neighbours
Enumerations(S, by) ==
    {s \in [1 .. Cardinality(S) -> S] :
        /\ \A i, j \in 1 .. Cardinality(S) : i # j => s[i] # s[j]
        /\ \A i \in 1 .. Cardinality(S) - 1 : Ordered(s[i], s[i + 1], by)}

\* .limit(1) then result[0]: a row, or undefined
First(S) ==
    IF S = {} THEN {[kind |-> "undefined", value |-> NullStr]}
    ELSE {[kind |-> "row", value |-> r] : r \in S}

----------------------------------------------------------------------------
(* What a call leaves: the store and what it returned or threw *)

Ok(d, ret) == [d |-> d, ret |-> ret]
Void == [kind |-> "void", value |-> NullStr]
IdOf(n) == [kind |-> "id", value |-> n]
Rows(s) == [kind |-> "rows", value |-> s]
Throw(message) == [kind |-> "error", value |-> message]

\* await db.update(table).set(data).where(...): with no column supplied
\* drizzle has nothing to assign and, by its version, raises "No values to
\* set" or lets the statement fail; no row changes
UpdateOutcomes(d, name, matched, data) ==
    IF Supplied(data) = {}
    THEN {Ok(d, Void), Ok(d, Throw("No values to set"))}
    ELSE {Ok(Update(d, name, matched, data), Void)}

----------------------------------------------------------------------------
(* db.ts: the connection provider *)

\* getDb() that calls drizzle(url) whenever there is a url
getDbCalls_Unmemoized ==
    IF DATABASE_URL = NoUrl
    THEN {[ret |-> NoDb, attempted |-> FALSE, memo |-> NoDb]}
    ELSE {[ret |-> Handle, attempted |-> TRUE, memo |-> Handle],
          [ret |-> NoDb, attempted |-> TRUE, memo |-> NoDb]}

\* the ways a call of getDb() can go: what it returns, whether it called
\* drizzle(url), and what it leaves in _db.  With a handle memoized, or
\* without DATABASE_URL, it returns _db; else drizzle(url) returns a handle,
\* which is memoized, or throws, and null is memoized and returned
getDbCalls ==
    IF _db # NoDb \/ DATABASE_URL = NoUrl
    THEN {[ret |-> _db, attempted |-> FALSE, memo |-> _db]}
    ELSE {[ret |-> Handle, attempted |-> TRUE, memo |-> Handle],
          [ret |-> NoDb, attempted |-> TRUE, memo |-> NoDb]}

\* what getDb() can return
getDb == {c.ret : c \in getDbCalls}

\* the handles drizzle(url) has returned once the call c of getDb() is over
Opened(c) == connections + (IF c.attempted /\ c.ret # NoDb THEN 1 ELSE 0)

NotAvailable == Throw("Database not available")

----------------------------------------------------------------------------
(* db.ts: user helpers *)

\* ENV.ownerOpenId: the configured owner identity
ownerOpenId == "owner"

\* obj[f]: undefined when the object has no such property
Prop(obj, f) == IF f \in DOMAIN obj THEN obj[f] ELSE Undefined

\* value ?? dflt, for a value that is not undefined
Coalesce(value, dflt) == IF value = NullStr THEN dflt ELSE value

textFields == <<"name", "email", "loginMethod">>

\* assignNullable(field): what it assigns to values[field] and to
\* updateSet[field]; nothing when user[field] is undefined
assignNullable(user, field) ==
    LET value == Prop(user, field) IN
    IF value = Undefined THEN Undefined
    ELSE Some(Coalesce(value[1], NullStr))

\* assignRole that makes the owner identity an admin whatever role is given
assignRole_OwnerFirst(user) ==
    IF user.openId[1] = ownerOpenId THEN Some("admin") ELSE Prop(user, "role")

\* the role assigned to values and to updateSet: the one supplied, else
\* admin for the owner identity, else none
assignRole(user) ==
    IF Prop(user, "role") # Undefined THEN Prop(user, "role")
    ELSE IF user.openId[1] = ownerOpenId THEN Some("admin")
    ELSE Undefined

\* what upsertUser assigns to values and updateSet alike
assigned(user) ==
    [name |-> assignNullable(user, textFields[1]),
     email |-> assignNullable(user, textFields[2]),
     loginMethod |-> assignNullable(user, textFields[3]),
     lastSignedIn |-> Prop(user, "lastSignedIn"),
     role |-> assignRole(user)]

\* values, at time t: openId, what was assigned, and lastSignedIn = new
\* Date() if there is none
values(user, t) ==
    Spread([openId |-> user.openId],
           [assigned(user) EXCEPT
                !.lastSignedIn = IF @ = Undefined THEN Some(t) ELSE @])

\* updateSet, at time t: what was assigned; lastSignedIn = new Date() if
\* nothing was
updateSet(user, t) ==
    IF Supplied(assigned(user)) = {}
    THEN [assigned(user) EXCEPT !.lastSignedIn = Some(t)]
    ELSE assigned(user)

\* an insert that the unique key on openId does not stop
onDuplicateKeyUpdate_None(d, vals, set) ==
    Insert(d, "users", users, vals)

\* db.insert(users).values(vals).onDuplicateKeyUpdate({ set }): users.openId
\* is unique; the row that has the openId is updated, or a row is inserted
onDuplicateKeyUpdate(d, vals, set) ==
    IF \E r \in From(d, "users") : r.openId = vals.openId[1]
    THEN Update(d, "users",
                {r \in From(d, "users") : r.openId = vals.openId[1]}, set)
    ELSE Insert(d, "users", users, vals)

\* !user.openId
NoOpenId(user) == Prop(user, "openId") \in {Undefined, Some("")}

\* upsertUser(user) at time t; h is what getDb() returns once there is an
\* openId
upsertUser(h, d, t, user) ==
    IF NoOpenId(user) THEN {Ok(d, Throw("User openId is required for upsert"))}
    ELSE IF h = NoDb THEN {Ok(d, Void)}
    ELSE {Ok(onDuplicateKeyUpdate(d, values(user, t), updateSet(user, t)), Void)}

getUserByOpenId(h, d, openId) ==
    IF h = NoDb THEN {Ok(d, x) : x \in First({})}
    ELSE {Ok(d, x) : x \in First({r \in From(d, "users") : r.openId = openId})}

----------------------------------------------------------------------------
(* db.ts: API keys.  Each function maps the handle h that getDb() returned *)
(* and the store d to the set of its possible outcomes.                    *)

createApiKey(h, d, data) ==
    IF h = NoDb THEN {Ok(d, NotAvailable)}
    ELSE {Ok(Insert(d, "apiKeys", apiKeys, data), IdOf(InsertId(d, "apiKeys")))}

getApiKeysByUserId(h, d, userId) ==
    IF h = NoDb THEN {Ok(d, Rows(<<>>))}
    ELSE {Ok(d, Rows(s)) :
            s \in Enumerations(
                {[id |-> r.id, keyName |-> r.keyName, lastUsed |-> r.lastUsed] :
                    r \in {r \in From(d, "apiKeys") : r.userId = userId}},
                ByTimestamp)}

getApiKeyById(h, d, id, userId) ==
    IF h = NoDb THEN {Ok(d, x) : x \in First({})}
    ELSE {Ok(d, x) :
            x \in First({r \in From(d, "apiKeys") : r.id = id /\ r.userId = userId})}

deleteApiKey(h, d, id, userId) ==
    IF h = NoDb THEN {Ok(d, Void)}
    ELSE {Ok(Delete(d, "apiKeys",
            {r \in From(d, "apiKeys") : r.id = id /\ r.userId = userId}), Void)}

updateApiKeyLastUsed(h, d, id) ==
    IF h = NoDb THEN {Ok(d, Void)}
    ELSE {Ok(Update(d, "apiKeys",
            {r \in From(d, "apiKeys") : r.id = id}, [lastUsed |-> Some("now")]),
             Void)}

----------------------------------------------------------------------------
(* db.ts: characters *)

\* createCharacter that returns when there is no handle, as an update does
createCharacter_SilentWithoutDb(h, d, data) ==
    IF h = NoDb THEN {Ok(d, Void)}
    ELSE {Ok(Insert(d, "characters", characters, data), IdOf(InsertId(d, "characters")))}

createCharacter(h, d, data) ==
    IF h = NoDb THEN {Ok(d, NotAvailable)}
    ELSE {Ok(Insert(d, "characters", characters, data),
             IdOf(InsertId(d, "characters")))}

getCharactersByUserId(h, d, userId) ==
    IF h = NoDb THEN {Ok(d, Rows(<<>>))}
    ELSE {Ok(d, Rows(s)) :
            s \in Enumerations({r \in From(d, "characters") : r.userId = userId},
                               ByTimestamp)}

getCharacterById(h, d, id, userId) ==
    IF h = NoDb THEN {Ok(d, x) : x \in First({})}
    ELSE {Ok(d, x) :
            x \in First({r \in From(d, "characters") : r.id = id /\ r.userId = userId})}

updateCharacter(h, d, id, userId, data) ==
    IF h = NoDb THEN {Ok(d, Void)}
    ELSE UpdateOutcomes(d, "characters",
            {r \in From(d, "characters") : r.id = id /\ r.userId = userId}, data)

deleteCharacter(h, d, id, userId) ==
    IF h = NoDb THEN {Ok(d, Void)}
    ELSE {Ok(Delete(d, "characters",
            {r \in From(d, "characters") : r.id = id /\ r.userId = userId}),
             Void)}

----------------------------------------------------------------------------
(* db.ts: scenarios *)

createScenario(h, d, data) ==
    IF h = NoDb THEN {Ok(d, NotAvailable)}
    ELSE {Ok(Insert(d, "scenarios", scenarios, data), IdOf(InsertId(d, "scenarios")))}

getScenariosByUserId(h, d, userId) ==
    IF h = NoDb THEN {Ok(d, Rows(<<>>))}
    ELSE {Ok(d, Rows(s)) :
            s \in Enumerations({r \in From(d, "scenarios") : r.userId = userId},
                               ByTimestamp)}

\* the search string, when given, must occur in the title: like '%q%'
Like(title, q) ==
    \E i \in 1 .. Len(title) - Len(q) + 1 : SubSeq(title, i, i + Len(q) - 1) = q

getPublicScenarios(h, d, searchQuery) ==
    IF h = NoDb THEN {Ok(d, Rows(<<>>))}
    ELSE IF searchQuery # Undefined /\ searchQuery[1] # ""
    THEN {Ok(d, Rows(s)) :
            s \in Enumerations(
                {r \in From(d, "scenarios") : r.isPublic /\ Like(r.title, searchQuery[1])},
                ByTimestamp)}
    ELSE {Ok(d, Rows(s)) :
            s \in Enumerations({r \in From(d, "scenarios") : r.isPublic},
                               ByTimestamp)}

\* getScenarioById whose select has no where clause
getScenarioById_AnyRow(h, d, id) ==
    IF h = NoDb THEN {Ok(d, x) : x \in First({})}
    ELSE {Ok(d, x) : x \in First({r \in From(d, "scenarios") : TRUE})}

getScenarioById(h, d, id) ==
    IF h = NoDb THEN {Ok(d, x) : x \in First({})}
    ELSE {Ok(d, x) : x \in First({r \in From(d, "scenarios") : r.id = id})}

updateScenario(h, d, id, userId, data) ==
    IF h = NoDb THEN {Ok(d, Void)}
    ELSE UpdateOutcomes(d, "scenarios",
            {r \in From(d, "scenarios") : r.id = id /\ r.userId = userId}, data)

\* deleteScenario that deletes the scenario before its children
deleteScenarioStatements_ParentFirst(id, userId) ==
    <<[table |-> "scenarios", column |-> "id", id |-> id, userId |-> userId],
      [table |-> "scenarioInteractions", column |-> "scenarioId", id |-> id,
       userId |-> NullInt],
      [table |-> "scenarioCharacters", column |-> "scenarioId", id |-> id,
       userId |-> NullInt]>>

\* the three statements of deleteScenario, in the order it awaits them
deleteScenarioStatements(id, userId) ==
    <<[table |-> "scenarioInteractions", column |-> "scenarioId", id |-> id,
       userId |-> NullInt],
      [table |-> "scenarioCharacters", column |-> "scenarioId", id |-> id,
       userId |-> NullInt],
      [table |-> "scenarios", column |-> "id", id |-> id, userId |-> userId]>>

\* one DELETE of a cascading delete: the rows whose column is id and, when
\* the statement names a user, whose userId is that user
DeleteStatement(d, st) ==
    Delete(d, st.table,
           {r \in From(d, st.table) :
                /\ r[st.column] = st.id
                /\ st.userId # NullInt => r.userId = st.userId})

RECURSIVE RunStatements(_, _)
RunStatements(d, sts) ==
    IF sts = <<>> THEN d
    ELSE RunStatements(DeleteStatement(d, Head(sts)), Tail(sts))

deleteScenario(h, d, id, userId) ==
    IF h = NoDb THEN {Ok(d, Void)}
    ELSE {Ok(RunStatements(d, deleteScenarioStatements(id, userId)), Void)}

----------------------------------------------------------------------------
(* db.ts: scenario characters and interactions *)

addScenarioCharacter(h, d, data) ==
    IF h = NoDb THEN {Ok(d, NotAvailable)}
    ELSE {Ok(Insert(d, "scenarioCharacters", scenarioCharacters, data),
             IdOf(InsertId(d, "scenarioCharacters")))}

getScenarioCharacters(h, d, scenarioId) ==
    IF h = NoDb THEN {Ok(d, Rows(<<>>))}
    ELSE {Ok(d, Rows(s)) :
            s \in Enumerations(
                {r \in From(d, "scenarioCharacters") : r.scenarioId = scenarioId},
                ByOrderIndex)}

deleteScenarioCharacter(h, d, id) ==
    IF h = NoDb THEN {Ok(d, Void)}
    ELSE {Ok(Delete(d, "scenarioCharacters",
            {r \in From(d, "scenarioCharacters") : r.id = id}), Void)}

addScenarioInteraction(h, d, data) ==
    IF h = NoDb THEN {Ok(d, NotAvailable)}
    ELSE {Ok(Insert(d, "scenarioInteractions", scenarioInteractions, data),
             IdOf(InsertId(d, "scenarioInteractions")))}

getScenarioInteractions(h, d, scenarioId) ==
    IF h = NoDb THEN {Ok(d, Rows(<<>>))}
    ELSE {Ok(d, Rows(s)) :
            s \in Enumerations(
                {r \in From(d, "scenarioInteractions") : r.scenarioId = scenarioId},
                ByOrderIndex)}

updateScenarioInteraction(h, d, id, data) ==
    IF h = NoDb THEN {Ok(d, Void)}
    ELSE UpdateOutcomes(d, "scenarioInteractions",
            {r \in From(d, "scenarioInteractions") : r.id = id}, data)

deleteScenarioInteraction(h, d, id) ==
    IF h = NoDb THEN {Ok(d, Void)}
    ELSE {Ok(Delete(d, "scenarioInteractions",
            {r \in From(d, "scenarioInteractions") : r.id = id}), Void)}

----------------------------------------------------------------------------
(* db.ts: chat sessions and messages *)

createChatSession(h, d, data) ==
    IF h = NoDb THEN {Ok(d, NotAvailable)}
    ELSE {Ok(Insert(d, "chatSessions", chatSessions, data),
             IdOf(InsertId(d, "chatSessions")))}

getChatSessionsByUserId(h, d, userId) ==
    IF h = NoDb THEN {Ok(d, Rows(<<>>))}
    ELSE {Ok(d, Rows(s)) :
            s \in Enumerations({r \in From(d, "chatSessions") : r.userId = userId},
                               ByTimestamp)}

getChatSessionById(h, d, id, userId) ==
    IF h = NoDb THEN {Ok(d, x) : x \in First({})}
    ELSE {Ok(d, x) :
            x \in First({r \in From(d, "chatSessions") : r.id = id /\ r.userId = userId})}

updateChatSession(h, d, id, userId, data) ==
    IF h = NoDb THEN {Ok(d, Void)}
    ELSE UpdateOutcomes(d, "chatSessions",
            {r \in From(d, "chatSessions") : r.id = id /\ r.userId = userId}, data)

\* the two statements of deleteChatSession, in the order it awaits them
\* deleteChatSession that deletes the session and not its messages
deleteChatSessionStatements_ParentOnly(id, userId) ==
    <<[table |-> "chatSessions", column |-> "id", id |-> id, userId |-> userId]>>

deleteChatSessionStatements(id, userId) ==
    <<[table |-> "chatMessages", column |-> "sessionId", id |-> id,
       userId |-> NullInt],
      [table |-> "chatSessions", column |-> "id", id |-> id, userId |-> userId]>>

deleteChatSession(h, d, id, userId) ==
    IF h = NoDb THEN {Ok(d, Void)}
    ELSE {Ok(RunStatements(d, deleteChatSessionStatements(id, userId)), Void)}

addChatMessage(h, d, data) ==
    IF h = NoDb THEN {Ok(d, NotAvailable)}
    ELSE {Ok(Insert(d, "chatMessages", chatMessages, data),
             IdOf(InsertId(d, "chatMessages")))}

getChatMessages(h, d, sessionId) ==
    IF h = NoDb THEN {Ok(d, Rows(<<>>))}
    ELSE {Ok(d, Rows(s)) :
            s \in Enumerations(
                {r \in From(d, "chatMessages") : r.sessionId = sessionId},
                ByTimestamp)}

deleteChatMessage(h, d, id) ==
    IF h = NoDb THEN {Ok(d, Void)}
    ELSE {Ok(Delete(d, "chatMessages",
            {r \in From(d, "chatMessages") : r.id = id}), Void)}

----------------------------------------------------------------------------
(* db.ts: stories and their characters *)

createStory(h, d, data) ==
    IF h = NoDb THEN {Ok(d, NotAvailable)}
    ELSE {Ok(Insert(d, "stories", stories, data), IdOf(InsertId(d, "stories")))}

getStoriesByUserId(h, d, userId) ==
    IF h = NoDb THEN {Ok(d, Rows(<<>>))}
    ELSE {Ok(d, Rows(s)) :
            s \in Enumerations({r \in From(d, "stories") : r.userId = userId},
                               ByTimestamp)}

getStoryById(h, d, id, userId) ==
    IF h = NoDb THEN {Ok(d, x) : x \in First({})}
    ELSE {Ok(d, x) :
            x \in First({r \in From(d, "stories") : r.id = id /\ r.userId = userId})}

\* updateStory whose where clause names the id alone
updateStory_ByIdAlone(h, d, id, userId, data) ==
    IF h = NoDb THEN {Ok(d, Void)}
    ELSE {Ok(Update(d, "stories", {r \in From(d, "stories") : r.id = id}, data), Void)}

updateStory(h, d, id, userId, data) ==
    IF h = NoDb THEN {Ok(d, Void)}
    ELSE UpdateOutcomes(d, "stories",
            {r \in From(d, "stories") : r.id = id /\ r.userId = userId}, data)

\* the two statements of deleteStory, in the order it awaits them
deleteStoryStatements(id, userId) ==
    <<[table |-> "storyCharacters", column |-> "storyId", id |-> id,
       userId |-> NullInt],
      [table |-> "stories", column |-> "id", id |-> id, userId |-> userId]>>

deleteStory(h, d, id, userId) ==
    IF h = NoDb THEN {Ok(d, Void)}
    ELSE {Ok(RunStatements(d, deleteStoryStatements(id, userId)), Void)}

addStoryCharacter(h, d, data) ==
    IF h = NoDb THEN {Ok(d, NotAvailable)}
    ELSE {Ok(Insert(d, "storyCharacters", storyCharacters, data),
             IdOf(InsertId(d, "storyCharacters")))}

getStoryCharacters(h, d, storyId) ==
    IF h = NoDb THEN {Ok(d, Rows(<<>>))}
    ELSE {Ok(d, Rows(s)) :
            s \in Enumerations(
                {r \in From(d, "storyCharacters") : r.storyId = storyId},
                ByOrderIndex)}

updateStoryCharacter(h, d, id, data) ==
    IF h = NoDb THEN {Ok(d, Void)}
    ELSE UpdateOutcomes(d, "storyCharacters",
            {r \in From(d, "storyCharacters") : r.id = id}, data)

deleteStoryCharacter(h, d, id) ==
    IF h = NoDb THEN {Ok(d, Void)}
    ELSE {Ok(Delete(d, "storyCharacters",
            {r \in From(d, "storyCharacters") : r.id = id}), Void)}

----------------------------------------------------------------------------
(* db.ts: generated images *)

createGeneratedImage(h, d, data) ==
    IF h = NoDb THEN {Ok(d, NotAvailable)}
    ELSE {Ok(Insert(d, "generatedImages", generatedImages, data),
             IdOf(InsertId(d, "generatedImages")))}

\* .limit(limit): the first rows of the ordered result
getGeneratedImagesByUserId(h, d, userId, limit) ==
    IF h = NoDb THEN {Ok(d, Rows(<<>>))}
    ELSE {Ok(d, Rows(SubSeq(s, 1, IF Len(s) < limit THEN Len(s) ELSE limit))) :
            s \in Enumerations(
                {r \in From(d, "generatedImages") : r.userId = userId},
                ByTimestamp)}

deleteGeneratedImage(h, d, id, userId) ==
    IF h = NoDb THEN {Ok(d, Void)}
    ELSE {Ok(Delete(d, "generatedImages",
            {r \in From(d, "generatedImages") : r.id = id /\ r.userId = userId}),
             Void)}

----------------------------------------------------------------------------
(* routers.ts: what the procedures make of the repository's outcomes *)

Success == [kind |-> "success", value |-> TRUE]
Null == [kind |-> "null", value |-> NullStr]

\* await db.f(...); return { success: true }: an error of f propagates
ThenSuccess(outcomes) ==
    {Ok(o.d, IF o.ret.kind = "error" THEN o.ret ELSE Success) : o \in outcomes}

\* input.f, undefined when the caller left it out
Opt(input, f) == IF f \in DOMAIN input THEN input[f] ELSE Undefined

\* v ?? dflt
Nullish(v, dflt) == IF v = Undefined THEN Some(dflt) ELSE v

\* dreamgen.ts (not among the sources): the ciphertext of an API key
encryptApiKey(apiKey) == "enc:" \o apiKey

DEFAULT_SAMPLING_PARAMS == "DEFAULT_SAMPLING_PARAMS"

\* scenarios.get: the scenario of that id, whoever owns it, with its children
scenarios_get(h, d, userId, input) ==
    UNION {IF o.ret.kind = "undefined" THEN {Ok(d, Null)}
           ELSE {Ok(d, [kind |-> "row",
                        value |-> Spread(o.ret.value,
                                         [characters |-> c.ret.value,
                                          interactions |-> i.ret.value])]) :
                    c \in getScenarioCharacters(h, d, input.id[1]),
                    i \in getScenarioInteractions(h, d, input.id[1])} :
           o \in getScenarioById(h, d, input.id[1])}

\* chat.getSession: the caller's session of that id with its messages
chat_getSession(h, d, userId, input) ==
    UNION {IF o.ret.kind = "undefined" THEN {Ok(d, Null)}
           ELSE {Ok(d, [kind |-> "row",
                        value |-> Spread(o.ret.value, [messages |-> m.ret.value])]) :
                    m \in getChatMessages(h, d, input.id[1])} :
           o \in getChatSessionById(h, d, input.id[1], userId)}

\* stories.get: the caller's story of that id with its characters
stories_get(h, d, userId, input) ==
    UNION {IF o.ret.kind = "undefined" THEN {Ok(d, Null)}
           ELSE {Ok(d, [kind |-> "row",
                        value |-> Spread(o.ret.value, [characters |-> c.ret.value])]) :
                    c \in getStoryCharacters(h, d, input.id[1])} :
           o \in getStoryById(h, d, input.id[1], userId)}

\* scenarios.copy, its first loop: one addScenarioCharacter per character read
RECURSIVE copyCharacters(_, _, _, _)
copyCharacters(h, d, newId, chars) ==
    IF chars = <<>> THEN d
    ELSE LET char == Head(chars)
             o == CHOOSE x \in addScenarioCharacter(h, d,
                        [scenarioId |-> Some(newId),
                         name |-> Some(char.name),
                         label |-> Some(char.label),
                         promptDescription |-> Some(char.promptDescription),
                         isUserCharacter |-> Some(char.isUserCharacter),
                         orderIndex |-> Some(char.orderIndex)]) : TRUE
         IN  copyCharacters(h, o.d, newId, Tail(chars))

\* scenarios.copy, its second loop: one addScenarioInteraction per interaction read
RECURSIVE copyInteractions(_, _, _, _)
copyInteractions(h, d, newId, interactions) ==
    IF interactions = <<>> THEN d
    ELSE LET interaction == Head(interactions)
             o == CHOOSE x \in addScenarioInteraction(h, d,
                        [scenarioId |-> Some(newId),
                         interactionType |-> Some(interaction.interactionType),
                         characterLabel |-> Some(interaction.characterLabel),
                         content |-> Some(interaction.content),
                         isSticky |-> Some(interaction.isSticky),
                         orderIndex |-> Some(interaction.orderIndex)]) : TRUE
         IN  copyInteractions(h, o.d, newId, Tail(interactions))

\* scenarios.copy: the scenario of that id, whoever owns it, is read; a new
\* scenario of the caller is created from it, then its children are re-inserted
\* scenarios.copy that gives the clone the isPublic of its source
scenarios_copy_KeepsVisibility(h, d, userId, input) ==
    UNION {IF found.ret.kind = "undefined" THEN {Ok(d, Throw("Scenario not found"))}
           ELSE LET scenario == found.ret.value IN
                UNION {IF created.ret.kind = "error" THEN {created}
                       ELSE LET newId == created.ret.value IN
                            {Ok(copyInteractions(
                                    h,
                                    copyCharacters(h, created.d, newId, cs.ret.value),
                                    newId, is.ret.value),
                                IdOf(newId)) :
                                cs \in getScenarioCharacters(h, created.d, input.id[1]),
                                is \in getScenarioInteractions(h, created.d, input.id[1])} :
                       created \in createScenario(h, d,
                            [userId |-> Some(userId),
                             title |-> Some(scenario.title \o " (Copy)"),
                             promptDescription |-> Some(scenario.promptDescription),
                             displayDescription |-> Some(scenario.displayDescription),
                             imageUrl |-> Some(scenario.imageUrl),
                             isPublic |-> Some(scenario.isPublic)])} :
           found \in getScenarioById(h, d, input.id[1])}

scenarios_copy(h, d, userId, input) ==
    UNION {IF found.ret.kind = "undefined" THEN {Ok(d, Throw("Scenario not found"))}
           ELSE LET scenario == found.ret.value IN
                UNION {IF created.ret.kind = "error" THEN {created}
                       ELSE LET newId == created.ret.value IN
                            {Ok(copyInteractions(
                                    h,
                                    copyCharacters(h, created.d, newId, cs.ret.value),
                                    newId, is.ret.value),
                                IdOf(newId)) :
                                cs \in getScenarioCharacters(h, created.d, input.id[1]),
                                is \in getScenarioInteractions(h, created.d, input.id[1])} :
                       created \in createScenario(h, d,
                            [userId |-> Some(userId),
                             title |-> Some(scenario.title \o " (Copy)"),
                             promptDescription |-> Some(scenario.promptDescription),
                             displayDescription |-> Some(scenario.displayDescription),
                             imageUrl |-> Some(scenario.imageUrl),
                             isPublic |-> Some(FALSE)])} :
           found \in getScenarioById(h, d, input.id[1])}

----------------------------------------------------------------------------
(* routers.ts: the procedures, each from the handle h, the store d, the    *)
(* caller ctx.user.id and the input to the set of its possible outcomes    *)

apiKeys_list(h, d, userId, input) == getApiKeysByUserId(h, d, userId)

apiKeys_create(h, d, userId, input) ==
    createApiKey(h, d,
        [userId |-> Some(userId), keyName |-> input.keyName,
         encryptedKey |-> Some(encryptApiKey(input.apiKey[1]))])

apiKeys_delete(h, d, userId, input) ==
    ThenSuccess(deleteApiKey(h, d, input.id[1], userId))

characters_list(h, d, userId, input) == getCharactersByUserId(h, d, userId)

characters_get(h, d, userId, input) == getCharacterById(h, d, input.id[1], userId)

characters_create(h, d, userId, input) ==
    createCharacter(h, d, Spread([userId |-> Some(userId)], input))

characters_update(h, d, userId, input) ==
    ThenSuccess(updateCharacter(h, d, input.id[1], userId, Rest(input)))

characters_delete(h, d, userId, input) ==
    ThenSuccess(deleteCharacter(h, d, input.id[1], userId))

scenarios_list(h, d, userId, input) == getScenariosByUserId(h, d, userId)

scenarios_listPublic(h, d, userId, input) ==
    getPublicScenarios(h, d, Opt(input, "search"))

scenarios_create(h, d, userId, input) ==
    createScenario(h, d, Spread([userId |-> Some(userId)], input))

scenarios_update(h, d, userId, input) ==
    ThenSuccess(updateScenario(h, d, input.id[1], userId, Rest(input)))

scenarios_delete(h, d, userId, input) ==
    ThenSuccess(deleteScenario(h, d, input.id[1], userId))

scenarios_addCharacter(h, d, userId, input) == addScenarioCharacter(h, d, input)

scenarios_removeCharacter(h, d, userId, input) ==
    ThenSuccess(deleteScenarioCharacter(h, d, input.id[1]))

scenarios_addInteraction(h, d, userId, input) == addScenarioInteraction(h, d, input)

scenarios_updateInteraction(h, d, userId, input) ==
    ThenSuccess(updateScenarioInteraction(h, d, input.id[1], Rest(input)))

scenarios_removeInteraction(h, d, userId, input) ==
    ThenSuccess(deleteScenarioInteraction(h, d, input.id[1]))

chat_listSessions(h, d, userId, input) == getChatSessionsByUserId(h, d, userId)

chat_createSession(h, d, userId, input) ==
    createChatSession(h, d,
        [userId |-> Some(userId),
         title |-> input.title,
         scenarioId |-> Nullish(Opt(input, "scenarioId"), NullInt),
         systemPrompt |-> Nullish(Opt(input, "systemPrompt"), NullStr),
         modelId |-> Nullish(Opt(input, "modelId"), "lucid-v1-medium"),
         samplingParams |-> Nullish(Opt(input, "samplingParams"),
                                    DEFAULT_SAMPLING_PARAMS)])

chat_updateSession(h, d, userId, input) ==
    ThenSuccess(updateChatSession(h, d, input.id[1], userId, Rest(input)))

chat_deleteSession(h, d, userId, input) ==
    ThenSuccess(deleteChatSession(h, d, input.id[1], userId))

chat_addMessage(h, d, userId, input) == addChatMessage(h, d, input)

chat_deleteMessage(h, d, userId, input) ==
    ThenSuccess(deleteChatMessage(h, d, input.id[1]))

stories_list(h, d, userId, input) == getStoriesByUserId(h, d, userId)

stories_create(h, d, userId, input) ==
    createStory(h, d,
        [userId |-> Some(userId),
         title |-> input.title,
         plotDescription |-> Nullish(Opt(input, "plotDescription"), NullStr),
         styleDescription |-> Nullish(Opt(input, "styleDescription"), NullStr),
         modelId |-> Nullish(Opt(input, "modelId"), "lucid-v1-medium"),
         samplingParams |-> Nullish(Opt(input, "samplingParams"),
                                    DEFAULT_SAMPLING_PARAMS)])

stories_update(h, d, userId, input) ==
    ThenSuccess(updateStory(h, d, input.id[1], userId, Rest(input)))

stories_delete(h, d, userId, input) ==
    ThenSuccess(deleteStory(h, d, input.id[1], userId))

stories_addCharacter(h, d, userId, input) == addStoryCharacter(h, d, input)

stories_updateCharacter(h, d, userId, input) ==
    ThenSuccess(updateStoryCharacter(h, d, input.id[1], Rest(input)))

stories_removeCharacter(h, d, userId, input) ==
    ThenSuccess(deleteStoryCharacter(h, d, input.id[1]))

images_list(h, d, userId, input) ==
    getGeneratedImagesByUserId(h, d, userId, Nullish(Opt(input, "limit"), 50)[1])

images_save(h, d, userId, input) ==
    createGeneratedImage(h, d, Spread([userId |-> Some(userId)], input))

images_delete(h, d, userId, input) ==
    ThenSuccess(deleteGeneratedImage(h, d, input.id[1], userId))

----------------------------------------------------------------------------
(* The calls of the model: the procedures of the router, and the exported  *)
(* repository functions no procedure of routers.ts reaches                 *)

NoCaller == 0
NoInput == [none |-> Undefined]

\* an id the table has given out, or the one it gives out next
Ids(name) == 1 .. autoInc[name]

WithId(name) == {[id |-> Some(id)] : id \in Ids(name)}

\* the inputs of an update: an id and the properties to set
WithIdAnd(name, datas) ==
    {Spread([id |-> Some(id)], data) : id \in Ids(name), data \in datas}

\* the inputs of an add: the parent's id and the child's properties
WithParent(column, name, datas) ==
    {Spread([c \in {column} |-> Some(id)], data) : id \in Ids(name), data \in datas}

OpenIds == {ownerOpenId, "u"}

\* InsertUser objects: an openId and at most one more property; two
\* without an openId
InsertUsers ==
    {Spread([openId |-> Some(o)], more) :
        o \in OpenIds,
        more \in {[f \in {} |-> Undefined]}
                  \cup {[name |-> Some(v)] : v \in {"n", "", NullStr}}
                  \cup {[email |-> Some(v)] : v \in {"e", ""}}
                  \cup {[loginMethod |-> Some(v)] : v \in {"google", NullStr}}
                  \cup {[role |-> Some(v)] : v \in {"user", "admin"}}
                  \cup {[lastSignedIn |-> Some(0)]}}
    \cup {[name |-> Some("n")], [openId |-> Some("")]}

ApiKeyInputs == {[keyName |-> Some("k"), apiKey |-> Some("0123456789")]}

CharacterInputs ==
    {[name |-> Some("n"), label |-> Some("a")],
     [name |-> Some("n"), label |-> Some("a"), promptDescription |-> Some("p"),
      displayDescription |-> Some("d"), imageUrl |-> Some("i"),
      isUserCharacter |-> Some(TRUE)]}

CharacterUpdates == {[name |-> Some("m")]}

ScenarioInputs ==
    {[title |-> Some("T"), promptDescription |-> Some("p"),
      displayDescription |-> Some("d"), imageUrl |-> Some("i")]}

ScenarioUpdates == {[isPublic |-> Some(TRUE)]}

SearchInputs == {NoInput, [search |-> Some("T")]}

ScenarioCharacterInputs ==
    {[name |-> Some("n"), label |-> Some("a"), promptDescription |-> Some("p"),
      isUserCharacter |-> Some(TRUE), orderIndex |-> Some(1)]}

\* InsertScenarioCharacter also has characterId, which no procedure passes
InsertScenarioCharacters ==
    {[name |-> Some("n"), label |-> Some("a"), characterId |-> Some(1)]}

ScenarioInteractionInputs ==
    {[interactionType |-> Some("text"), content |-> Some("hi")]}

ScenarioInteractionUpdates == {[content |-> Some("ho"), isSticky |-> Some(TRUE)]}

ChatSessionInputs ==
    {[title |-> Some("T")],
     [title |-> Some("T"), scenarioId |-> Some(1), systemPrompt |-> Some("s"),
      modelId |-> Some("lucid-v1-extra-large"), samplingParams |-> Some("custom")]}

\* title is z.string().optional(): the empty string is admitted; a property
\* may be given as undefined
ChatSessionUpdates ==
    {[title |-> Some("")],
     [title |-> Undefined, systemPrompt |-> Some("s")],
     [title |-> Undefined]}

ChatMessageInputs == {[messageType |-> Some("user"), content |-> Some("hi")]}

StoryInputs ==
    {[title |-> Some("T")],
     [title |-> Some("T"), plotDescription |-> Some("p"),
      styleDescription |-> Some("s"), modelId |-> Some("lucid-v1-extra-large"),
      samplingParams |-> Some("custom")]}

StoryUpdates == {[content |-> Some("c")]}

StoryCharacterInputs == {[name |-> Some("n")]}

StoryCharacterUpdates == {[description |-> Some("d")]}

ImageInputs ==
    {[includePrompt |-> Some("p")],
     [includePrompt |-> Some("p"), excludePrompt |-> Some("x"),
      cfgScale |-> Some(9), style |-> Some("anime"), imageUrl |-> Some("i")]}

ImageListInputs == {NoInput, [limit |-> Some(1)]}

Procedures ==
    {"db.getUserByOpenId",
     "apiKeys.list", "apiKeys.create", "apiKeys.delete",
     "db.getApiKeyById", "db.updateApiKeyLastUsed",
     "characters.list", "characters.get", "characters.create",
     "characters.update", "characters.delete",
     "scenarios.list", "scenarios.listPublic", "scenarios.get",
     "scenarios.create", "scenarios.update", "scenarios.delete", "scenarios.copy",
     "scenarios.addCharacter", "db.addScenarioCharacter",
     "scenarios.removeCharacter", "scenarios.addInteraction",
     "scenarios.updateInteraction", "scenarios.removeInteraction",
     "chat.listSessions", "chat.getSession", "chat.createSession",
     "chat.updateSession", "chat.deleteSession", "chat.addMessage",
     "chat.deleteMessage",
     "stories.list", "stories.get", "stories.create", "stories.update",
     "stories.delete", "stories.addCharacter", "stories.updateCharacter",
     "stories.removeCharacter",
     "images.list", "images.save", "images.delete"}

Families == {"users", "apiKeys", "characters", "scenarios", "chat", "stories", "images"}

\* the entity family of a procedure: the router it is in
Family(p) ==
    CASE p \in {"db.getApiKeyById", "db.updateApiKeyLastUsed"} -> "apiKeys"
      [] p = "db.addScenarioCharacter" -> "scenarios"
      [] p = "db.getUserByOpenId" -> "users"
      [] OTHER -> CHOOSE f \in Families :
                    Len(p) > Len(f) /\ SubSeq(p, 1, Len(f) + 1) = f \o "."

\* who can call it: ctx.user of a protectedProcedure; a publicProcedure and
\* a repository function that takes no user have no caller
Callers(p) ==
    IF p \in {"scenarios.listPublic", "db.updateApiKeyLastUsed",
              "db.addScenarioCharacter", "db.getUserByOpenId"}
    THEN {NoCaller} ELSE Users

Inputs(p) ==
    CASE p = "db.getUserByOpenId" -> {[openId |-> Some(o)] : o \in OpenIds}
      [] p = "apiKeys.create" -> ApiKeyInputs
      [] p \in {"apiKeys.delete", "db.getApiKeyById", "db.updateApiKeyLastUsed"}
            -> WithId("apiKeys")
      [] p = "characters.create" -> CharacterInputs
      [] p \in {"characters.get", "characters.delete"} -> WithId("characters")
      [] p = "characters.update" -> WithIdAnd("characters", CharacterUpdates)
      [] p = "scenarios.listPublic" -> SearchInputs
      [] p = "scenarios.create" -> ScenarioInputs
      [] p \in {"scenarios.get", "scenarios.delete", "scenarios.copy"}
            -> WithId("scenarios")
      [] p = "scenarios.update" -> WithIdAnd("scenarios", ScenarioUpdates)
      [] p = "scenarios.addCharacter"
            -> WithParent("scenarioId", "scenarios", ScenarioCharacterInputs)
      [] p = "db.addScenarioCharacter"
            -> WithParent("scenarioId", "scenarios", InsertScenarioCharacters)
      [] p = "scenarios.removeCharacter" -> WithId("scenarioCharacters")
      [] p = "scenarios.addInteraction"
            -> WithParent("scenarioId", "scenarios", ScenarioInteractionInputs)
      [] p = "scenarios.updateInteraction"
            -> WithIdAnd("scenarioInteractions", ScenarioInteractionUpdates)
      [] p = "scenarios.removeInteraction" -> WithId("scenarioInteractions")
      [] p = "chat.createSession" -> ChatSessionInputs
      [] p \in {"chat.getSession", "chat.deleteSession"} -> WithId("chatSessions")
      [] p = "chat.updateSession" -> WithIdAnd("chatSessions", ChatSessionUpdates)
      [] p = "chat.addMessage"
            -> WithParent("sessionId", "chatSessions", ChatMessageInputs)
      [] p = "chat.deleteMessage" -> WithId("chatMessages")
      [] p = "stories.create" -> StoryInputs
      [] p \in {"stories.get", "stories.delete"} -> WithId("stories")
      [] p = "stories.update" -> WithIdAnd("stories", StoryUpdates)
      [] p = "stories.addCharacter"
            -> WithParent("storyId", "stories", StoryCharacterInputs)
      [] p = "stories.updateCharacter"
            -> WithIdAnd("storyCharacters", StoryCharacterUpdates)
      [] p = "stories.removeCharacter" -> WithId("storyCharacters")
      [] p = "images.list" -> ImageListInputs
      [] p = "images.save" -> ImageInputs
      [] p = "images.delete" -> WithId("generatedImages")
      [] OTHER -> {NoInput}

\* the outcomes of procedure p
Run(p, h, d, u, input) ==
    CASE p = "db.getUserByOpenId" -> getUserByOpenId(h, d, input.openId[1])
      [] p = "apiKeys.list" -> apiKeys_list(h, d, u, input)
      [] p = "apiKeys.create" -> apiKeys_create(h, d, u, input)
      [] p = "apiKeys.delete" -> apiKeys_delete(h, d, u, input)
      [] p = "db.getApiKeyById" -> getApiKeyById(h, d, input.id[1], u)
      [] p = "db.updateApiKeyLastUsed" -> updateApiKeyLastUsed(h, d, input.id[1])
      [] p = "characters.list" -> characters_list(h, d, u, input)
      [] p = "characters.get" -> characters_get(h, d, u, input)
      [] p = "characters.create" -> characters_create(h, d, u, input)
      [] p = "characters.update" -> characters_update(h, d, u, input)
      [] p = "characters.delete" -> characters_delete(h, d, u, input)
      [] p = "scenarios.list" -> scenarios_list(h, d, u, input)
      [] p = "scenarios.listPublic" -> scenarios_listPublic(h, d, u, input)
      [] p = "scenarios.get" -> scenarios_get(h, d, u, input)
      [] p = "scenarios.create" -> scenarios_create(h, d, u, input)
      [] p = "scenarios.update" -> scenarios_update(h, d, u, input)
      [] p = "scenarios.delete" -> scenarios_delete(h, d, u, input)
      [] p = "scenarios.copy" -> scenarios_copy(h, d, u, input)
      [] p = "scenarios.addCharacter" -> scenarios_addCharacter(h, d, u, input)
      [] p = "db.addScenarioCharacter" -> addScenarioCharacter(h, d, input)
      [] p = "scenarios.removeCharacter" -> scenarios_removeCharacter(h, d, u, input)
      [] p = "scenarios.addInteraction" -> scenarios_addInteraction(h, d, u, input)
      [] p = "scenarios.updateInteraction"
            -> scenarios_updateInteraction(h, d, u, input)
      [] p = "scenarios.removeInteraction"
            -> scenarios_removeInteraction(h, d, u, input)
      [] p = "chat.listSessions" -> chat_listSessions(h, d, u, input)
      [] p = "chat.getSession" -> chat_getSession(h, d, u, input)
      [] p = "chat.createSession" -> chat_createSession(h, d, u, input)
      [] p = "chat.updateSession" -> chat_updateSession(h, d, u, input)
      [] p = "chat.deleteSession" -> chat_deleteSession(h, d, u, input)
      [] p = "chat.addMessage" -> chat_addMessage(h, d, u, input)
      [] p = "chat.deleteMessage" -> chat_deleteMessage(h, d, u, input)
      [] p = "stories.list" -> stories_list(h, d, u, input)
      [] p = "stories.get" -> stories_get(h, d, u, input)
      [] p = "stories.create" -> stories_create(h, d, u, input)
      [] p = "stories.update" -> stories_update(h, d, u, input)
      [] p = "stories.delete" -> stories_delete(h, d, u, input)
      [] p = "stories.addCharacter" -> stories_addCharacter(h, d, u, input)
      [] p = "stories.updateCharacter" -> stories_updateCharacter(h, d, u, input)
      [] p = "stories.removeCharacter" -> stories_removeCharacter(h, d, u, input)
      [] p = "images.list" -> images_list(h, d, u, input)
      [] p = "images.save" -> images_save(h, d, u, input)
      [] p = "images.delete" -> images_delete(h, d, u, input)

\* the rows inserted so far, over all tables
Inserted(d) ==
    d.inc.users + d.inc.apiKeys + d.inc.characters + d.inc.scenarios + d.inc.scenarioCharacters
    + d.inc.scenarioInteractions + d.inc.chatSessions + d.inc.chatMessages
    + d.inc.stories + d.inc.storyCharacters + d.inc.generatedImages
    - Cardinality(Tables)

\* one call of procedure p: getDb() returns h (and memoizes it), the
\* procedure runs to its end and leaves the store of one of its outcomes
Call(p) ==
    /\ family = Family(p)
    /\ \E u \in Callers(p), input \in Inputs(p), c \in getDbCalls :
        \E o \in Run(p, c.ret, D, u, input) :
            /\ \/ Inserted(o.d) <= MaxRows
               \/ p = "scenarios.copy" /\ Inserted(D) <= MaxRows
            /\ _db' = c.memo
            /\ connections' = Opened(c)
            /\ store' = o.d.rows
            /\ autoInc' = o.d.inc
    /\ UNCHANGED <<DATABASE_URL, family, now, pending>>

\* one call of upsertUser, at the time now; getDb() is called only once the
\* openId is there; the next call comes later
UpsertUser ==
    /\ family = "users"
    /\ now <= MaxUpserts
    /\ \E user \in InsertUsers, c \in getDbCalls :
        \E o \in upsertUser(c.ret, D, now, user) :
            /\ _db' = IF NoOpenId(user) THEN _db ELSE c.memo
            /\ connections' = IF NoOpenId(user) THEN connections ELSE Opened(c)
            /\ store' = o.d.rows
            /\ autoInc' = o.d.inc
    /\ now' = now + 1
    /\ UNCHANGED <<DATABASE_URL, family, pending>>

\* a (re)start of the server process: db.ts is loaded with _db = null and
\* the environment is read; the store outlives the process
start ==
    /\ _db' = NoDb
    /\ connections' = 0
    /\ DATABASE_URL' \in {NoUrl, Url}
    /\ pending' = <<>>
    /\ UNCHANGED <<store, autoInc, family, now>>

Init ==
    /\ store = [t \in Tables |-> {}]
    /\ autoInc = [t \in Tables |-> 1]
    /\ _db = NoDb
    /\ connections = 0
    /\ DATABASE_URL \in {NoUrl, Url}
    /\ family \in Families
    /\ now = 1
    /\ pending = <<>>

Next ==
    \/ start
    \/ UpsertUser
    \/ Call("db.getUserByOpenId")
    \/ Call("apiKeys.list")
    \/ Call("apiKeys.create")
    \/ Call("apiKeys.delete")
    \/ Call("db.getApiKeyById")
    \/ Call("db.updateApiKeyLastUsed")
    \/ Call("characters.list")
    \/ Call("characters.get")
    \/ Call("characters.create")
    \/ Call("characters.update")
    \/ Call("characters.delete")
    \/ Call("scenarios.list")
    \/ Call("scenarios.listPublic")
    \/ Call("scenarios.get")
    \/ Call("scenarios.create")
    \/ Call("scenarios.update")
    \/ Call("scenarios.delete")
    \/ Call("scenarios.copy")
    \/ Call("scenarios.addCharacter")
    \/ Call("db.addScenarioCharacter")
    \/ Call("scenarios.removeCharacter")
    \/ Call("scenarios.addInteraction")
    \/ Call("scenarios.updateInteraction")
    \/ Call("scenarios.removeInteraction")
    \/ Call("chat.listSessions")
    \/ Call("chat.getSession")
    \/ Call("chat.createSession")
    \/ Call("chat.updateSession")
    \/ Call("chat.deleteSession")
    \/ Call("chat.addMessage")
    \/ Call("chat.deleteMessage")
    \/ Call("stories.list")
    \/ Call("stories.get")
    \/ Call("stories.create")
    \/ Call("stories.update")
    \/ Call("stories.delete")
    \/ Call("stories.addCharacter")
    \/ Call("stories.updateCharacter")
    \/ Call("stories.removeCharacter")
    \/ Call("images.list")
    \/ Call("images.save")
    \/ Call("images.delete")

Spec == Init /\ [][Next]_vars

----------------------------------------------------------------------------
(* The vocabulary of the properties.  A property of a procedure is stated  *)
(* of every call the procedure admits in a reachable state: of each        *)
(* caller, input and handle, and of each outcome the call can have.        *)

\* the procedures that can be called in this state
Callable == {p \in Procedures : Family(p) = family}

\* the table of the owned entity a procedure reads, updates or deletes by id
OwnedTable(p) ==
    CASE p \in {"db.getApiKeyById", "apiKeys.delete"} -> "apiKeys"
      [] p \in {"characters.get", "characters.update", "characters.delete"}
            -> "characters"
      [] p \in {"scenarios.get", "scenarios.update", "scenarios.delete",
                "scenarios.copy"} -> "scenarios"
      [] p \in {"chat.getSession", "chat.updateSession", "chat.deleteSession"}
            -> "chatSessions"
      [] p \in {"stories.get", "stories.update", "stories.delete"} -> "stories"
      [] p = "images.delete" -> "generatedImages"

Gets == {"db.getApiKeyById", "characters.get", "chat.getSession", "stories.get"}

OwnerScoped ==
    Gets \cup {"apiKeys.delete", "characters.update", "characters.delete",
               "scenarios.update", "scenarios.delete", "chat.updateSession",
               "chat.deleteSession", "stories.update", "stories.delete",
               "images.delete"}

CascadingDeletes == {"scenarios.delete", "chat.deleteSession", "stories.delete"}

\* the child tables of a parent table, each with its foreign key column
ChildTables(parent) ==
    CASE parent = "scenarios"
            -> {[table |-> "scenarioCharacters", column |-> "scenarioId"],
                [table |-> "scenarioInteractions", column |-> "scenarioId"]}
      [] parent = "chatSessions"
            -> {[table |-> "chatMessages", column |-> "sessionId"]}
      [] parent = "stories"
            -> {[table |-> "storyCharacters", column |-> "storyId"]}
      [] OTHER -> {}

ParentTables == {"scenarios", "chatSessions", "stories"}

\* the child procedures of the router, each with the child table it works on
ChildProcedures ==
    {"scenarios.addCharacter", "scenarios.removeCharacter",
     "scenarios.addInteraction", "scenarios.updateInteraction",
     "scenarios.removeInteraction", "chat.addMessage", "chat.deleteMessage",
     "stories.addCharacter", "stories.updateCharacter", "stories.removeCharacter"}

\* the rows of d that reference parent row r from a child table
ChildrenOf(d, parent, r) ==
    [c \in ChildTables(parent) |-> {x \in d.rows[c.table] : x[c.column] = r.id}]

\* the child rows of d, in any child table, whose parent row exists and
\* belongs to someone other than u
ForeignChildren(d, u) ==
    UNION {UNION {{[table |-> c.table, row |-> x] :
                      x \in {y \in d.rows[c.table] :
                                \E r \in d.rows[parent] :
                                    r.id = y[c.column] /\ r.userId # u}} :
                  c \in ChildTables(parent)} :
           parent \in ParentTables}

\* this step is the call that got handle h and ended in outcome o
Taken(h, o) == _db' = h /\ store' = o.d.rows /\ autoInc' = o.d.inc

----------------------------------------------------------------------------
(* C1: a row of an owner-scoped entity (ApiKey, Character, Scenario,       *)
(* ChatSession, Story, GeneratedImage) created under one user is absent to *)
(* a get by another user and is left in its table, with every field as it  *)
(* was, by an update or a delete by another user; scenarios.get alone      *)
(* returns the row to any caller.                                          *)
C1_OwnerIsolation ==
    \A p \in Callable \cap (OwnerScoped \cup {"scenarios.get"}) :
    \A u \in Callers(p), input \in Inputs(p), h \in getDb :
    \A o \in Run(p, h, D, u, input) :
    \A r \in store[OwnedTable(p)] :
        (r.id = input.id[1] /\ r.userId # u) =>
            /\ r \in o.d.rows[OwnedTable(p)]
            /\ p \in Gets => o.ret.kind \in {"undefined", "null"}
            /\ (p = "scenarios.get" /\ h = Handle) =>
                    /\ o.ret.kind = "row"
                    /\ \A f \in DOMAIN r : o.ret.value[f] = r[f]

\* another user's update, with a handle, of a row that the update would change
C1_Witness ==
    \E p \in Callable \cap {"characters.update", "scenarios.update",
                            "chat.updateSession", "stories.update"} :
    \E u \in Callers(p), input \in Inputs(p) :
    \E r \in store[OwnedTable(p)] :
        /\ _db = Handle
        /\ r.id = input.id[1] /\ r.userId # u
        /\ \E o \in Run(p, Handle, D, r.userId, input) : r \notin o.d.rows[OwnedTable(p)]
        /\ \E o \in Run(p, Handle, D, u, input) : o.ret = Success

(* C2: a cascading delete (deleteScenario, deleteChatSession, deleteStory) *)
(* by a user who does not own the parent changes nothing: the parent row   *)
(* and every child row that references it are still there afterwards.      *)
C2_ForeignCascadeChangesNothing ==
    [][\A p \in Callable \cap CascadingDeletes :
       \A u \in Callers(p), input \in Inputs(p), h \in getDb :
       \A o \in Run(p, h, D, u, input) :
       \A r \in store[OwnedTable(p)] :
            (Taken(h, o) /\ r.id = input.id[1] /\ r.userId # u) =>
                /\ r \in store'[OwnedTable(p)]
                /\ ChildrenOf(D', OwnedTable(p), r) = ChildrenOf(D, OwnedTable(p), r)
      ]_vars

(* C3: through the child procedures of the router a caller never adds,     *)
(* changes or removes a child row whose parent Scenario, ChatSession or    *)
(* Story belongs to another user.                                          *)
C3_ChildProceduresOwnerScoped ==
    [][\A p \in Callable \cap ChildProcedures :
       \A u \in Callers(p), input \in Inputs(p), h \in getDb :
       \A o \in Run(p, h, D, u, input) :
            Taken(h, o) => ForeignChildren(D', u) = ForeignChildren(D, u)
      ]_vars

(* C4: the owner's cascading delete of an existing parent, run against the *)
(* store, removes the parent row and every child row that references it,   *)
(* and nothing else: the rows of other parents are as they were.           *)
C4_CascadeComplete ==
    \A p \in Callable \cap CascadingDeletes :
    \A u \in Callers(p), input \in Inputs(p) :
    \A o \in Run(p, Handle, D, u, input) :
    \A r \in store[OwnedTable(p)] :
        (r.id = input.id[1] /\ r.userId = u) =>
            /\ o.d.rows[OwnedTable(p)] = store[OwnedTable(p)] \ {r}
            /\ \A c \in ChildTables(OwnedTable(p)) :
                    o.d.rows[c.table] = {x \in store[c.table] : x[c.column] # r.id}
            /\ \A t \in Tables \ ({OwnedTable(p)}
                                  \cup {c.table : c \in ChildTables(OwnedTable(p))}) :
                    o.d.rows[t] = store[t]

\* with a handle: an owner's parent with a child, and a child of another parent
C4_Witness ==
    /\ _db = Handle
    /\ \E parent \in ParentTables : \E r \in store[parent] :
       \E c \in ChildTables(parent) :
            /\ \E x \in store[c.table] : x[c.column] = r.id
            /\ \E x \in store[c.table] : x[c.column] # r.id

(* C5: referential integrity: every ScenarioCharacter and                  *)
(* ScenarioInteraction row references an existing Scenario, every          *)
(* ChatMessage an existing ChatSession, every StoryCharacter an existing   *)
(* Story.                                                                  *)
C5_ReferentialIntegrity ==
    \A parent \in ParentTables : \A c \in ChildTables(parent) :
    \A x \in store[c.table] : \E r \in store[parent] : r.id = x[c.column]

\* the rows of A and of B agree one to one on the columns cols
SameRows(A, B, cols) ==
    /\ Cardinality(A) = Cardinality(B)
    /\ \E f \in [A -> B] :
        /\ \A a, b \in A : a # b => f[a] # f[b]
        /\ \A a \in A : \A c \in cols : a[c] = f[a][c]

(* C6: a successful scenarios.copy creates exactly one Scenario row: its   *)
(* id is new and is the id returned, its owner is the caller, its title is *)
(* the source's followed by " (Copy)", its promptDescription,              *)
(* displayDescription and imageUrl are the source's, its isPublic is       *)
(* false; the source scenario and its children are as they were.           *)
C6_CopyCreatesClone ==
    family = "scenarios" =>
    \A u \in Callers("scenarios.copy"), input \in Inputs("scenarios.copy"),
       h \in getDb :
    \A o \in Run("scenarios.copy", h, D, u, input) :
        o.ret.kind = "id" =>
            \E src \in store.scenarios :
                /\ src.id = input.id[1]
                /\ store.scenarios \subseteq o.d.rows.scenarios
                /\ o.d.rows.scenarios \ store.scenarios =
                        {[id |-> o.ret.value,
                          userId |-> u,
                          title |-> src.title \o " (Copy)",
                          promptDescription |-> src.promptDescription,
                          displayDescription |-> src.displayDescription,
                          imageUrl |-> src.imageUrl,
                          isPublic |-> FALSE]}
                /\ \A r \in store.scenarios : r.id # o.ret.value
                /\ ChildrenOf(o.d, "scenarios", src) = ChildrenOf(D, "scenarios", src)

\* a public scenario with a child, and a private copy of it that another
\* user owns, with its child
C6_Witness ==
    \E src, clone \in store.scenarios :
        /\ clone.title = src.title \o " (Copy)"
        /\ src.isPublic /\ ~clone.isPublic
        /\ clone.userId # src.userId
        /\ \E c \in ChildTables("scenarios") :
            /\ \E x \in store[c.table] : x[c.column] = src.id
            /\ \E x \in store[c.table] : x[c.column] = clone.id

ScenarioCharacterColumns ==
    {"characterId", "name", "label", "promptDescription", "isUserCharacter",
     "orderIndex"}

ScenarioInteractionColumns ==
    {"interactionType", "characterLabel", "content", "isSticky", "orderIndex"}

\* every child row's parent row exists
Referenced ==
    \A parent \in ParentTables : \A c \in ChildTables(parent) :
        \A x \in store[c.table] : \E r \in store[parent] : r.id = x[c.column]

(* C7: a successful scenarios.copy, from a store where every child row's   *)
(* parent exists, gives the clone as many ScenarioCharacter and            *)
(* ScenarioInteraction rows as the source has, each equal to its source    *)
(* row in characterId, name, label, promptDescription, isUserCharacter and *)
(* orderIndex (interactionType, characterLabel, content, isSticky and      *)
(* orderIndex for an interaction).                                         *)
C7_CopyClonesChildren ==
    [][\A u \in Callers("scenarios.copy"), input \in Inputs("scenarios.copy"),
          h \in getDb :
       \A o \in Run("scenarios.copy", h, D, u, input) :
            (/\ family = "scenarios"
             /\ Referenced
             /\ Taken(h, o)
             /\ o.ret.kind = "id") =>
                /\ SameRows({x \in store'.scenarioCharacters :
                                x.scenarioId = input.id[1]},
                            {x \in store'.scenarioCharacters :
                                x.scenarioId = o.ret.value},
                            ScenarioCharacterColumns)
                /\ SameRows({x \in store'.scenarioInteractions :
                                x.scenarioId = input.id[1]},
                            {x \in store'.scenarioInteractions :
                                x.scenarioId = o.ret.value},
                            ScenarioInteractionColumns)
      ]_vars

(* C8: scenarios.copy of an id no scenario has fails with "Scenario not    *)
(* found" and leaves the store exactly as it was.                          *)
C8_CopyOfMissingFails ==
    family = "scenarios" =>
    \A u \in Callers("scenarios.copy"), input \in Inputs("scenarios.copy"),
       h \in getDb :
    \A o \in Run("scenarios.copy", h, D, u, input) :
        (\A r \in store.scenarios : r.id # input.id[1]) =>
            o = Ok(D, Throw("Scenario not found"))

\* with a handle: a scenario exists, another was deleted, and the deleted
\* id is one a copy can be asked for
C8_Witness ==
    /\ family = "scenarios" /\ _db = Handle
    /\ store.scenarios # {}
    /\ \E input \in Inputs("scenarios.copy") :
        /\ input.id[1] < autoInc.scenarios
        /\ \A r \in store.scenarios : r.id # input.id[1]

(* C9: scenarios.copy of a scenario that exists and is not the caller's    *)
(* fails with "Scenario not found" and creates no row.                     *)
C9_CopyOfForeignFails ==
    [][\A u \in Callers("scenarios.copy"), input \in Inputs("scenarios.copy"),
          h \in getDb :
       \A o \in Run("scenarios.copy", h, D, u, input) :
            (/\ family = "scenarios"
             /\ Taken(h, o)
             /\ \E r \in store.scenarios : r.id = input.id[1] /\ r.userId # u) =>
                /\ o.ret = Throw("Scenario not found")
                /\ store' = store
      ]_vars

Lists ==
    {"apiKeys.list", "characters.list", "scenarios.list", "scenarios.listPublic",
     "chat.listSessions", "stories.list", "images.list"}

Creates ==
    {"apiKeys.create", "characters.create", "scenarios.create",
     "scenarios.addCharacter", "db.addScenarioCharacter",
     "scenarios.addInteraction", "chat.createSession", "chat.addMessage",
     "stories.create", "stories.addCharacter", "images.save"}

UpdatesAndDeletes ==
    {"apiKeys.delete", "db.updateApiKeyLastUsed", "characters.update",
     "characters.delete", "scenarios.update", "scenarios.delete",
     "scenarios.removeCharacter", "scenarios.updateInteraction",
     "scenarios.removeInteraction", "chat.updateSession", "chat.deleteSession",
     "chat.deleteMessage", "stories.update", "stories.delete",
     "stories.updateCharacter", "stories.removeCharacter", "images.delete"}

(* C10: while getDb() returns null, in every entity family, every list     *)
(* returns the empty sequence, every get returns absent, every create and  *)
(* add raises "Database not available", and every update and delete        *)
(* returns normally; none of them changes the store.                       *)
C10_Unavailable ==
    /\ \A p \in Callable :
       \A u \in Callers(p), input \in Inputs(p), h \in getDb \cap {NoDb} :
       \A o \in Run(p, h, D, u, input) :
            /\ o.d = D
            /\ p \in Lists => o.ret = Rows(<<>>)
            /\ p \in Gets \cup {"scenarios.get", "db.getUserByOpenId"}
                    => o.ret.kind \in {"undefined", "null"}
            /\ p \in Creates => o.ret = Throw("Database not available")
            /\ p \in UpdatesAndDeletes => o.ret \in {Void, Success}
    /\ \A h \in getDb \cap {NoDb} :
        /\ \A id \in Ids("scenarios") :
            /\ getScenarioById(h, D, id) = {Ok(D, [kind |-> "undefined", value |-> NullStr])}
            /\ getScenarioCharacters(h, D, id) = {Ok(D, Rows(<<>>))}
            /\ getScenarioInteractions(h, D, id) = {Ok(D, Rows(<<>>))}
        /\ \A id \in Ids("chatSessions") :
            getChatMessages(h, D, id) = {Ok(D, Rows(<<>>))}
        /\ \A id \in Ids("stories") :
            getStoryCharacters(h, D, id) = {Ok(D, Rows(<<>>))}

\* getDb() returns null while the store holds a parent row and a child row
\* whose owners' lists, gets, updates and deletes would find them
C10_Witness ==
    /\ getDb = {NoDb}
    /\ \E parent \in ParentTables : \E r \in store[parent] :
       \E c \in ChildTables(parent) : \E x \in store[c.table] : x[c.column] = r.id

----------------------------------------------------------------------------
\* the users rows of store d that have the openId of the InsertUser
UserRows(d, user) == {r \in d.rows.users : r.openId = user.openId[1]}

\* the step is that call of upsertUser with that outcome
Upserted(user, h, o) ==
    /\ family = "users"
    /\ ~NoOpenId(user)
    /\ now' = now + 1
    /\ Taken(h, o)

(* C11: upsertUser with an openId, while getDb() returns null, raises an   *)
(* error to its caller.                                                    *)
C11_UpsertRaisesWhenUnavailable ==
    [][\A user \in InsertUsers, h \in getDb :
       \A o \in upsertUser(h, D, now, user) :
            (Upserted(user, h, o) /\ h = NoDb) => o.ret.kind = "error"
      ]_vars

(* C12: the users table holds at most one row per openId; an upsertUser    *)
(* that runs against the store with an openId a row has leaves the table   *)
(* with the same rows but for that one, and with an openId no row has adds *)
(* exactly one row, which has that openId.                                 *)
C12_OneRowPerOpenId ==
    /\ \A a, b \in store.users : a.openId = b.openId => a = b
    /\ family = "users" =>
        \A user \in InsertUsers, h \in getDb \ {NoDb} :
        \A o \in upsertUser(h, D, now, user) :
            ~NoOpenId(user) =>
                /\ store.users \ UserRows(D, user) = o.d.rows.users \ UserRows(o.d, user)
                /\ Cardinality(UserRows(o.d, user)) = 1
                /\ \A r \in UserRows(D, user), n \in UserRows(o.d, user) : n.id = r.id

\* with a handle: the one row of the table took its name from one upsert
\* of its openId and its role from another
C12_Witness ==
    /\ _db = Handle
    /\ \E r \in store.users : r.openId = "u" /\ r.name = "n" /\ r.role = "admin"
    /\ Cardinality(store.users) = 1

(* C13: an upsertUser that runs against the store and is given no          *)
(* lastSignedIn leaves the row of its openId with lastSignedIn equal to    *)
(* the time of the call, whether the row was inserted or updated, whatever *)
(* the openId and the other fields given.                                  *)
C13_LastSignedInIsNow ==
    [][\A user \in InsertUsers, h \in getDb :
       \A o \in upsertUser(h, D, now, user) :
            (/\ Upserted(user, h, o)
             /\ h # NoDb
             /\ Prop(user, "lastSignedIn") = Undefined) =>
                \A r \in UserRows(D', user) : r.lastSignedIn = now
      ]_vars

(* C14: after an upsertUser that runs against the store, the role of the   *)
(* row of its openId is the role given; when none is given it is "admin"   *)
(* for the owner identity, else "user" for a row just inserted and the     *)
(* role the row had for a row that was there.                              *)
C14_Role ==
    family = "users" =>
    \A user \in InsertUsers, h \in getDb \ {NoDb} :
    \A o \in upsertUser(h, D, now, user) :
        ~NoOpenId(user) =>
            /\ UserRows(o.d, user) # {}
            /\ \A n \in UserRows(o.d, user) :
                IF Prop(user, "role") # Undefined THEN n.role = user.role[1]
                ELSE IF user.openId[1] = ownerOpenId THEN n.role = "admin"
                ELSE IF UserRows(D, user) = {} THEN n.role = "user"
                ELSE \A r \in UserRows(D, user) : n.role = r.role

\* with a handle: the owner identity was given the role "user", another
\* identity the role "admin"
C14_Witness ==
    /\ _db = Handle
    /\ \E r \in store.users : r.openId = ownerOpenId /\ r.role = "user"
    /\ \E r \in store.users : r.openId # ownerOpenId /\ r.role = "admin"

(* C15: after an upsertUser that runs against the store, for each of name, *)
(* email and loginMethod: a field not given keeps the value an existing    *)
(* row had, a non-empty value is stored as given, and null or the empty    *)
(* string is stored as null.                                               *)
C15_TextFields ==
    [][\A user \in InsertUsers, h \in getDb :
       \A o \in upsertUser(h, D, now, user) :
            (Upserted(user, h, o) /\ h # NoDb) =>
                \A i \in DOMAIN textFields :
                \A n \in UserRows(D', user) :
                    LET f == textFields[i]
                        value == Prop(user, f) IN
                    IF value = Undefined
                        THEN \A r \in UserRows(D, user) : n[f] = r[f]
                    ELSE IF value[1] \in {"", NullStr} THEN n[f] = NullStr
                    ELSE n[f] = value[1]
      ]_vars

OwnerUpdates ==
    {"characters.update", "scenarios.update", "chat.updateSession", "stories.update"}

C17_CharactersInOrder ==
    family = "scenarios" =>
    \A scenarioId \in Ids("scenarios"), h \in getDb \ {NoDb} :
    \A o \in getScenarioCharacters(h, D, scenarioId) :
        LET s == o.ret.value IN
        /\ o.ret.kind = "rows"
        /\ {s[i] : i \in DOMAIN s}
                = {r \in store.scenarioCharacters : r.scenarioId = scenarioId}
        /\ \A i, j \in DOMAIN s :
            i < j => \/ s[i].orderIndex < s[j].orderIndex
                     \/ s[i].orderIndex = s[j].orderIndex /\ s[i].id < s[j].id

(* C18: getDb() memoizes one handle: a process never has more than one     *)
(* handle from drizzle(url), and a handle getDb() returns is that one;     *)
(* without DATABASE_URL getDb() returns null and does not call             *)
(* drizzle(url); a call of drizzle(url) that fails leaves nothing          *)
(* memoized, and with a url and nothing memoized getDb() calls             *)
(* drizzle(url).                                                           *)
C18_Memoized ==
    /\ connections <= 1
    /\ \A c \in getDbCalls :
        /\ c.ret # NoDb => Opened(c) = 1 /\ c.memo = c.ret
        /\ (c.ret # NoDb /\ connections = 1) => ~c.attempted /\ c.ret = _db
        /\ DATABASE_URL = NoUrl => c.ret = NoDb /\ ~c.attempted
        /\ (c.attempted /\ c.ret = NoDb) => c.memo = NoDb
        /\ (_db = NoDb /\ DATABASE_URL # NoUrl) => c.attempted

\* a handle is memoized and a call has used it
C18_Witness ==
    /\ _db = Handle
    /\ connections = 1
    /\ \E t \in Tables : store[t] # {}

----------------------------------------------------------------------------
(* The cascading deletes and scenarios.copy, statement by statement.  Each *)
(* is a sequence of awaited statements with no transaction around it: the  *)
(* store shows the state between two statements, and a call that is        *)
(* interrupted (a statement is rejected, the process stops) leaves it.     *)
(* pending holds what the running call has still to issue; no other call   *)
(* runs meanwhile.                                                         *)

\* the procedures that build parents and children
Builders ==
    {"scenarios.create", "scenarios.addCharacter", "db.addScenarioCharacter",
     "scenarios.addInteraction", "chat.createSession", "chat.addMessage",
     "stories.create", "stories.addCharacter"}

\* scenarios.addInteraction with an orderIndex
OrderedInteractionInputs ==
    {[interactionType |-> Some("text"), content |-> Some("hi"),
      orderIndex |-> Some(1)]}

\* the parent column of the rows an add procedure inserts, and its table
ParentColumn(p) ==
    CASE p \in {"scenarios.addCharacter", "db.addScenarioCharacter",
                "scenarios.addInteraction"}
            -> [column |-> "scenarioId", table |-> "scenarios"]
      [] p = "chat.addMessage" -> [column |-> "sessionId", table |-> "chatSessions"]
      [] p = "stories.addCharacter" -> [column |-> "storyId", table |-> "stories"]

\* the inputs of a builder: those of the procedure, an add under a parent
\* row that exists
StepInputs(p) ==
    IF p \in {"scenarios.create", "chat.createSession", "stories.create"}
    THEN Inputs(p)
    ELSE {input \in Inputs(p) \cup
                    (IF p = "scenarios.addInteraction"
                     THEN WithParent("scenarioId", "scenarios",
                                     OrderedInteractionInputs)
                     ELSE {}) :
            \E r \in store[ParentColumn(p).table] :
                r.id = input[ParentColumn(p).column][1]}

\* one call of a builder, as Call
Build(p) ==
    /\ p \in Builders
    /\ pending = <<>>
    /\ family = Family(p)
    /\ \E u \in Callers(p), input \in StepInputs(p), c \in getDbCalls :
        \E o \in Run(p, c.ret, D, u, input) :
            /\ Inserted(o.d) <= MaxStepRows
            /\ _db' = c.memo
            /\ connections' = Opened(c)
            /\ store' = o.d.rows
            /\ autoInc' = o.d.inc
    /\ UNCHANGED <<DATABASE_URL, family, now, pending>>

\* the statements of a cascading delete
Statements(p, id, userId) ==
    CASE p = "scenarios.delete" -> deleteScenarioStatements(id, userId)
      [] p = "chat.deleteSession" -> deleteChatSessionStatements(id, userId)
      [] p = "stories.delete" -> deleteStoryStatements(id, userId)

Deletes(sts) == [i \in DOMAIN sts |-> [kind |-> "delete", st |-> sts[i]]]

\* a cascading delete is called: getDb(), and without a handle it returns
BeginDelete(p) ==
    /\ pending = <<>>
    /\ family = Family(p)
    /\ Inserted(D) <= MaxStepRows
    /\ \E u \in Callers(p), input \in Inputs(p), c \in getDbCalls :
        /\ _db' = c.memo
        /\ connections' = Opened(c)
        /\ pending' = IF c.ret = NoDb THEN <<>>
                      ELSE Deletes(Statements(p, input.id[1], u))
    /\ UNCHANGED <<store, autoInc, DATABASE_URL, family, now>>

\* scenarios.copy: the InsertScenario of the clone
cloneOf(userId, scenario) ==
    [userId |-> Some(userId),
     title |-> Some(scenario.title \o " (Copy)"),
     promptDescription |-> Some(scenario.promptDescription),
     displayDescription |-> Some(scenario.displayDescription),
     imageUrl |-> Some(scenario.imageUrl),
     isPublic |-> Some(FALSE)]

\* scenarios.copy is called: getScenarioById, and "Scenario not found"
BeginCopy ==
    /\ pending = <<>>
    /\ family = "scenarios"
    /\ Inserted(D) <= MaxStepRows
    /\ \E u \in Users, input \in Inputs("scenarios.copy"), c \in getDbCalls :
        \E found \in getScenarioById(c.ret, D, input.id[1]) :
            /\ _db' = c.memo
            /\ connections' = Opened(c)
            /\ pending' =
                IF found.ret.kind = "undefined" THEN <<>>
                ELSE <<[kind |-> "createScenario", source |-> input.id[1],
                        data |-> cloneOf(u, found.ret.value)]>>
    /\ UNCHANGED <<store, autoInc, DATABASE_URL, family, now>>

\* scenarios.copy that copies the interactions before the characters
copyLoops_InteractionsFirst(source, newId) ==
    <<[kind |-> "getScenarioInteractions", source |-> source, newId |-> newId],
      [kind |-> "getScenarioCharacters", source |-> source, newId |-> newId]>>

\* scenarios.copy after createScenario: its two loops, each a query of the
\* source's children and an insert per row
copyLoops(source, newId) ==
    <<[kind |-> "getScenarioCharacters", source |-> source, newId |-> newId],
      [kind |-> "getScenarioInteractions", source |-> source, newId |-> newId]>>

\* the iterations of a loop of scenarios.copy over the rows a query returned
Iterations(kind, s, rows) ==
    [i \in DOMAIN rows |->
        [kind |-> kind, source |-> s.source, newId |-> s.newId, row |-> rows[i]]]

\* the running call issues its next statement, the first of sts: the store
\* afterwards and what the call has still to issue
Issue(h, d, sts) ==
    LET s == Head(sts) IN
    CASE s.kind = "delete" ->
            {[d |-> DeleteStatement(d, s.st), pending |-> Tail(sts)]}
      [] s.kind = "createScenario" ->
            {[d |-> o.d,
              pending |-> IF o.ret.kind = "error" THEN <<>>
                          ELSE copyLoops(s.source, o.ret.value)] :
                o \in createScenario(h, d, s.data)}
      [] s.kind = "getScenarioCharacters" ->
            {[d |-> d,
              pending |-> Iterations("addScenarioCharacter", s, o.ret.value)
                            \o Tail(sts)] :
                o \in getScenarioCharacters(h, d, s.source)}
      [] s.kind = "addScenarioCharacter" ->
            {[d |-> copyCharacters(h, d, s.newId, <<s.row>>),
              pending |-> Tail(sts)]}
      [] s.kind = "getScenarioInteractions" ->
            {[d |-> d,
              pending |-> Iterations("addScenarioInteraction", s, o.ret.value)
                            \o Tail(sts)] :
                o \in getScenarioInteractions(h, d, s.source)}
      [] s.kind = "addScenarioInteraction" ->
            {[d |-> copyInteractions(h, d, s.newId, <<s.row>>),
              pending |-> Tail(sts)]}

\* the next statement of the running call; getDb() returns the memoized handle
Step ==
    /\ pending # <<>>
    /\ \E h \in getDb : \E o \in Issue(h, D, pending) :
        /\ store' = o.d.rows
        /\ autoInc' = o.d.inc
        /\ pending' = o.pending
    /\ UNCHANGED <<_db, DATABASE_URL, family, now, connections>>

\* the statement the running call awaits is rejected: the call ends there
reject ==
    /\ pending # <<>>
    /\ pending' = <<>>
    /\ UNCHANGED <<store, autoInc, _db, DATABASE_URL, family, now, connections>>

StepInit == Init /\ family \in {"scenarios", "chat", "stories"}

StepNext ==
    \/ start
    \/ Build("scenarios.create")
    \/ Build("scenarios.addCharacter")
    \/ Build("db.addScenarioCharacter")
    \/ Build("scenarios.addInteraction")
    \/ Build("chat.createSession")
    \/ Build("chat.addMessage")
    \/ Build("stories.create")
    \/ Build("stories.addCharacter")
    \/ BeginDelete("scenarios.delete")
    \/ BeginDelete("chat.deleteSession")
    \/ BeginDelete("stories.delete")
    \/ BeginCopy
    \/ Step
    \/ reject

StepSpec == StepInit /\ [][StepNext]_vars

----------------------------------------------------------------------------
\* the running call is a cascading delete
Deleting == pending # <<>> /\ Head(pending).kind = "delete"

(* C19: no statement of deleteScenario, deleteChatSession or deleteStory    *)
(* removes a parent row (Scenario, ChatSession, Story) that a child row     *)
(* still references, and none removes a ScenarioCharacter of a scenario     *)
(* that a ScenarioInteraction still references: in every state between two *)
(* statements, and in the state an interrupted call leaves, the parent is   *)
(* present as long as a child of it is; the interactions go first, then the *)
(* characters, the parent last.                                             *)
C19_ChildrenBeforeParent ==
    [][Deleting =>
        /\ \A parent \in ParentTables : \A r \in store[parent] :
            (\A x \in store'[parent] : x.id # r.id) =>
                \A c \in ChildTables(parent) :
                    \A x \in store[c.table] : x[c.column] # r.id
        /\ \A r \in store.scenarioCharacters :
            r \notin store'.scenarioCharacters =>
                \A x \in store.scenarioInteractions : x.scenarioId # r.scenarioId
      ]_vars

\* deleteScenario by the owner has deleted the interactions of the scenario:
\* its characters and the scenario are still there
C19_Witness ==
    /\ Deleting
    /\ Len(pending) = 2
    /\ autoInc.scenarioInteractions > 1
    /\ \E r \in store.scenarios :
        /\ r.id = pending[2].st.id
        /\ r.userId = pending[2].st.userId
        /\ \E x \in store.scenarioCharacters : x.scenarioId = r.id
        /\ \A x \in store.scenarioInteractions : x.scenarioId # r.id

\* the running call is scenarios.copy, in or between its two loops
Copying ==
    /\ pending # <<>>
    /\ Head(pending).kind \in
            {"getScenarioCharacters", "addScenarioCharacter",
             "getScenarioInteractions", "addScenarioInteraction"}

CharactersOf(id) == {r \in store.scenarioCharacters : r.scenarioId = id}
InteractionsOf(id) == {r \in store.scenarioInteractions : r.scenarioId = id}

\* the rows S in the order of their insertion
InInsertionOrder(S) ==
    CHOOSE s \in [1 .. Cardinality(S) -> S] :
        \A i, j \in 1 .. Cardinality(S) : i < j => s[i].id < s[j].id

\* the sequences of the rows S in ascending orderIndex
Ascending(S) ==
    {s \in [1 .. Cardinality(S) -> S] :
        /\ \A r \in S : \E i \in 1 .. Cardinality(S) : s[i] = r
        /\ \A i, j \in 1 .. Cardinality(S) :
            i < j => s[i].orderIndex <= s[j].orderIndex}

\* the rows of clone are, in the columns cols, the first rows of e
PrefixOf(clone, e, cols) ==
    /\ Len(clone) <= Len(e)
    /\ \A i \in DOMAIN clone : \A c \in cols : clone[i][c] = e[i][c]

----------------------------------------------------------------------------
(* A cascading delete and the add procedures, interleaved.  Nothing orders  *)
(* two requests: between two awaited statements of a running delete the     *)
(* server serves other requests, and the insert of an add reaches the store *)
(* there.                                                                   *)

\* the procedures that add a child row
Adders ==
    {"scenarios.addCharacter", "db.addScenarioCharacter",
     "scenarios.addInteraction", "chat.addMessage", "stories.addCharacter"}

\* one call of an add procedure while a cascading delete is between two of
\* its statements: getDb() returns the memoized handle, the row is inserted
Add(p) ==
    /\ p \in Adders
    /\ Deleting
    /\ family = Family(p)
    /\ \E u \in Callers(p), input \in StepInputs(p), h \in getDb :
        \E o \in Run(p, h, D, u, input) :
            /\ Inserted(o.d) <= MaxStepRows
            /\ store' = o.d.rows
            /\ autoInc' = o.d.inc
    /\ UNCHANGED <<_db, DATABASE_URL, family, now, connections, pending>>

RaceNext ==
    \/ StepNext
    \/ Add("scenarios.addCharacter")
    \/ Add("db.addScenarioCharacter")
    \/ Add("scenarios.addInteraction")
    \/ Add("chat.addMessage")
    \/ Add("stories.addCharacter")

RaceSpec == StepInit /\ [][RaceNext]_vars

(* C21: when a cascading delete (deleteScenario, deleteChatSession,         *)
(* deleteStory) of the owner runs with add-child calls for the same parent  *)
(* served between its statements, the statement that removes the parent    *)
(* row, the last of the delete, leaves no child row that references the    *)
(* removed parent.                                                          *)
C21_CascadeCompleteInterleaved ==
    [][Deleting =>
        \A parent \in ParentTables : \A r \in store[parent] :
            (\A x \in store'[parent] : x.id # r.id) =>
                \A c \in ChildTables(parent) :
                    \A x \in store'[c.table] : x[c.column] # r.id
      ]_vars

====
